---- MODULE Spec2Model ----
(***************************************************************************)
(* Model of DataPrivacyToolkit (src/main.py): a toolkit object holding one *)
(* pandas DataFrame and five methods (hash_data, pseudonymize_data,        *)
(* create_fake_data, drop_sensitive_data, save_anonymized_data), each a    *)
(* try/except around a DataFrame operation.                                *)
(*                                                                         *)
(* A DataFrame is a record                                                 *)
(*     [columns : sequence of column names (df.columns, in order),         *)
(*      index   : number of rows (len(df.index), kept by DataFrame.drop),  *)
(*      data    : function from the names in columns to value sequences]   *)
(* A cell value is [type, text]: its Python type and the text str() gives. *)
(* A text is [base, h]: h applications of SHA-256 hexdigest to the string  *)
(* base.  SHA-256 is modelled symbolically (collision free, no fixed       *)
(* point): its output is a new text determined by its input text.          *)
(***************************************************************************)
EXTENDS Integers, Sequences, FiniteSets, TLC

\* ------------------------------------------------------------ bounds
MaxRows == 2
MaxCalls == 2

\* ------------------------------------------------------------ values
Text(b) == [base |-> b, h |-> 0]

StrValue(b) == [type |-> "str", text |-> Text(b)]

NoneValue == [type |-> "NoneType", text |-> Text("None")]

NaN == [type |-> "float", text |-> Text("nan")]

\* str(x)
Str(x) == x.text

\* fault variant: the text is returned without being hashed
Sha256HexDigestIdentity(s) == s

\* hashlib.sha256(s.encode()).hexdigest()
Sha256HexDigest(s) == [s EXCEPT !.h = @ + 1]

\* lambda x: hashlib.sha256(str(x).encode()).hexdigest()
HashValue(x) == [type |-> "str", text |-> Sha256HexDigest(Str(x))]

\* ''.join(random.choices(string.ascii_letters + string.digits, k=10)):
\* the strings the random source may return
PseudonymPool == {StrValue("Xk3pQ9zLm2"), StrValue("b7TyU1wRc8")}

\* fault variant: the dispatch table also answers the tag ssn
data_generator_with_ssn ==
    [name        |-> {StrValue("John Doe"), StrValue("Jane Roe")},
     address     |-> {StrValue("1 Main St"), StrValue("2 Oak Ave")},
     email       |-> {StrValue("jd@example.org"), StrValue("jr@example.net")},
     credit_card |-> {StrValue("4111111111111111"), StrValue("5500005555555559")},
     phone       |-> {StrValue("555-0100"), StrValue("555-0199")},
     ssn         |-> {StrValue("078-05-1120"), StrValue("219-09-9999")}]

\* the dispatch table of create_fake_data: tag -> what the generator may return
data_generator ==
    [name        |-> {StrValue("John Doe"), StrValue("Jane Roe")},
     address     |-> {StrValue("1 Main St"), StrValue("2 Oak Ave")},
     email       |-> {StrValue("jd@example.org"), StrValue("jr@example.net")},
     credit_card |-> {StrValue("4111111111111111"), StrValue("5500005555555559")},
     phone       |-> {StrValue("555-0100"), StrValue("555-0199")}]

\* ------------------------------------------------------------ DataFrame
Range(s) == {s[i] : i \in DOMAIN s}

ColumnSet(df) == Range(df.columns)

\* len(df)
LenDataFrame(df) == df.index

\* fault variant: an absent column reads as a column of missing values
\* (df.reindex(columns=[column_name])[column_name])
GetItemReindex(df, column_name) ==
    IF column_name \in ColumnSet(df)
    THEN [exc |-> "None", values |-> df.data[column_name]]
    ELSE [exc |-> "None", values |-> [i \in 1..df.index |-> NaN]]

\* df[column_name]: KeyError when the column is absent
GetItem(df, column_name) ==
    IF column_name \in ColumnSet(df)
    THEN [exc |-> "None", values |-> df.data[column_name]]
    ELSE [exc |-> "KeyError", values |-> <<>>]

\* df[column_name] = values: replaces the column, or appends a new one
SetItem(df, column_name, values) ==
    IF Len(values) # df.index
    THEN [exc |-> "ValueError", df |-> df]
    ELSE IF column_name \in ColumnSet(df)
    THEN [exc |-> "None", df |-> [df EXCEPT !.data[column_name] = values]]
    ELSE [exc |-> "None",
          df |-> [columns |-> Append(df.columns, column_name),
                  index |-> df.index,
                  data |-> (column_name :> values) @@ df.data]]

\* fault variant: df.drop(columns=[column_name], errors='ignore')
DropColumnsIgnoreMissing(df, column_name) ==
    [exc |-> "None",
     df |-> [columns |-> SelectSeq(df.columns, LAMBDA n : n # column_name),
             index |-> df.index,
             data |-> [n \in ColumnSet(df) \ {column_name} |-> df.data[n]]]]

\* fault variant: the frame is rebuilt from the columns that remain, so
\* that dropping the last column also drops the rows
DropColumnsRebuild(df, column_name) ==
    IF column_name \notin ColumnSet(df)
    THEN [exc |-> "KeyError", df |-> df]
    ELSE [exc |-> "None",
          df |-> [columns |-> SelectSeq(df.columns, LAMBDA n : n # column_name),
                  index |-> IF ColumnSet(df) = {column_name} THEN 0 ELSE df.index,
                  data |-> [n \in ColumnSet(df) \ {column_name} |-> df.data[n]]]]

\* df.drop(columns=[column_name], inplace=True)
DropColumns(df, column_name) ==
    IF column_name \notin ColumnSet(df)
    THEN [exc |-> "KeyError", df |-> df]
    ELSE [exc |-> "None",
          df |-> [columns |-> SelectSeq(df.columns, LAMBDA n : n # column_name),
                  index |-> df.index,
                  data |-> [n \in ColumnSet(df) \ {column_name} |-> df.data[n]]]]

\* Series.apply(lambda x: hashlib.sha256(str(x).encode()).hexdigest())
SeriesApply(s) == [i \in DOMAIN s |-> HashValue(s[i])]

\* Series.unique(): the distinct values in order of first appearance
RECURSIVE Unique(_)
Unique(s) ==
    IF s = <<>> THEN <<>>
    ELSE LET r == Unique(SubSeq(s, 1, Len(s) - 1))
             x == s[Len(s)]
         IN IF x \in Range(r) THEN r ELSE Append(r, x)

\* fault variant: each key of the dict is used once, for the first row
\* that holds it
SeriesMapFirstOnly(s, dict) ==
    [i \in DOMAIN s |->
        IF s[i] \in DOMAIN dict /\ \A j \in 1..(i - 1) : s[j] # s[i]
        THEN dict[s[i]] ELSE NaN]

\* Series.map(dict): a value that is no key becomes NaN
SeriesMap(s, dict) ==
    [i \in DOMAIN s |-> IF s[i] \in DOMAIN dict THEN dict[s[i]] ELSE NaN]

\* DataFrame.to_csv(index=False): header line, then one line per row; a
\* missing value is written as the empty field
CsvField(x) == IF x.type \in {"NoneType", "float"} THEN Text("") ELSE Str(x)

ToCsv(df) ==
    <<[k \in DOMAIN df.columns |-> Text(df.columns[k])]>> \o
    [i \in 1..df.index |->
        [k \in DOMAIN df.columns |-> CsvField(df.data[df.columns[k]][i])]]

\* ------------------------------------------------------------ try/except
\* fault variant: hash_data catches ValueError only
except_clauses_narrow ==
    [hash_data            |-> <<"ValueError">>,
     pseudonymize_data    |-> <<"Exception">>,
     create_fake_data     |-> <<"Exception">>,
     drop_sensitive_data  |-> <<"KeyError", "Exception">>,
     save_anonymized_data |-> <<"Exception">>]

\* the except clauses of each method, in order
except_clauses ==
    [hash_data            |-> <<"Exception">>,
     pseudonymize_data    |-> <<"Exception">>,
     create_fake_data     |-> <<"Exception">>,
     drop_sensitive_data  |-> <<"KeyError", "Exception">>,
     save_anonymized_data |-> <<"Exception">>]

\* isinstance(exc, cls) for the exception classes that occur
IsInstance(exc, cls) == cls = "Exception" \/ cls = exc

\* the first except clause of the method that matches exc, 0 when none does
Handler(method, exc) ==
    LET hs == {i \in DOMAIN except_clauses[method] :
                  IsInstance(exc, except_clauses[method][i])}
    IN IF hs = {} THEN 0 ELSE CHOOSE i \in hs : \A j \in hs : i <= j

\* what the method prints: its success line, or the line of the handler
Printed(method, exc) ==
    IF exc = "None" THEN "success"
    ELSE IF except_clauses[method][Handler(method, exc)] = "KeyError"
    THEN "error: does not exist"
    ELSE "error"

\* try: body / except ...: print(...).  st is the state the body left, exc
\* the exception it raised ("None" when it returned).
TryExcept(method, st, exc) ==
    IF exc = "None" \/ Handler(method, exc) # 0
    THEN [st |-> st, exc |-> exc, printed |-> Printed(method, exc),
          uncaught |-> FALSE]
    ELSE [st |-> st, exc |-> exc, printed |-> "nothing", uncaught |-> TRUE]

\* ------------------------------------------------------------ the methods
\* st = [data_frame, files]: the toolkit's DataFrame and the files on disk

\* fault variant: every column of the frame is hashed (DataFrame.applymap)
hash_data_every_column(st, column_name) ==
    LET got == GetItem(st.data_frame, column_name)
        df == [st.data_frame EXCEPT !.data =
                  [n \in DOMAIN @ |-> SeriesApply(@[n])]]
    IN IF got.exc # "None" THEN TryExcept("hash_data", st, got.exc)
       ELSE TryExcept("hash_data", [st EXCEPT !.data_frame = df], "None")

hash_data(st, column_name) ==
    LET got == GetItem(st.data_frame, column_name)
        set == SetItem(st.data_frame, column_name,
                       SeriesApply(got.values))
    IN IF got.exc # "None" THEN TryExcept("hash_data", st, got.exc)
       ELSE TryExcept("hash_data", [st EXCEPT !.data_frame = set.df], set.exc)

\* draws: the successive results of random.choices, one per distinct value
pseudonymize_data(st, column_name, draws) ==
    LET got == GetItem(st.data_frame, column_name)
        entries == Unique(got.values)
        pseudonyms == [x \in Range(entries) |->
                          draws[CHOOSE k \in DOMAIN entries : entries[k] = x]]
        set == SetItem(st.data_frame, column_name,
                       SeriesMap(got.values, pseudonyms))
    IN IF got.exc # "None" THEN TryExcept("pseudonymize_data", st, got.exc)
       ELSE TryExcept("pseudonymize_data",
                      [st EXCEPT !.data_frame = set.df], set.exc)

\* generated: the successive results of data_generator[data_type](), one
\* per element of range(len(self.data_frame))
create_fake_data(st, column_name, data_type, generated) ==
    LET values == [i \in 1..LenDataFrame(st.data_frame) |-> generated[i]]
        set == SetItem(st.data_frame, column_name, values)
    IN IF data_type \in DOMAIN data_generator
       THEN TryExcept("create_fake_data",
                      [st EXCEPT !.data_frame = set.df], set.exc)
       ELSE TryExcept("create_fake_data", st, "ValueError")

drop_sensitive_data(st, column_name) ==
    LET dropped == DropColumns(st.data_frame, column_name)
    IN TryExcept("drop_sensitive_data",
                 [st EXCEPT !.data_frame = dropped.df], dropped.exc)

\* files maps each path that can be written to the file's lines (<<>>: no
\* file yet); to_csv on any other path raises OSError
save_anonymized_data(st, file_name) ==
    IF file_name \in DOMAIN st.files
    THEN TryExcept("save_anonymized_data",
                   [st EXCEPT !.files[file_name] = ToCsv(st.data_frame)],
                   "None")
    ELSE TryExcept("save_anonymized_data", st, "OSError")

\* one call of a method: c = [op, column_name, arg, rnd]
Apply(st, c) ==
    CASE c.op = "hash_data" -> hash_data(st, c.column_name)
      [] c.op = "pseudonymize_data" ->
            pseudonymize_data(st, c.column_name, c.rnd)
      [] c.op = "create_fake_data" ->
            create_fake_data(st, c.column_name, c.arg, c.rnd)
      [] c.op = "drop_sensitive_data" -> drop_sensitive_data(st, c.column_name)
      [] c.op = "save_anonymized_data" -> save_anonymized_data(st, c.arg)

\* ------------------------------------------------------------ the caller
VARIABLES
    data_frame,   \* self.data_frame
    files,        \* the files on disk that save_anonymized_data can write
    uncaught,     \* an exception left a method: the caller's sequence stopped
    ncalls,       \* number of calls made
    call,         \* the last call: [op, column_name, arg, exc, printed]
    prev_call,    \* the call before it
    pre,          \* data_frame before the last call
    constructed,  \* the frame the toolkit was constructed with
    mirror        \* the same two calls made in the other order (SpecCommute)

vars == <<data_frame, files, uncaught, ncalls, call, prev_call, pre,
          constructed, mirror>>

\* the arguments the caller passes
ColumnNames == {"Name", "Email"}

DataTypes == {"phone", "ssn"}

FileNames == {"anonymized_data.csv", "/missing_dir/anonymized_data.csv"}

\* the frames the toolkit is constructed with: columns Name and Email, or
\* Name alone, or no column at all; up to MaxRows rows; any values in Name
\* (repeated or not; None and the string "None" are different values with
\* the same str()); distinct values in Email
NameValues == {StrValue("None"), NoneValue}

EmailSample == <<"alice@example.com", "bob@example.com", "charlie@example.com",
                 "dave@example.com", "erin@example.com">>

EmailValue(i) == StrValue(EmailSample[i])

InitialColumns == {<<"Name", "Email">>, <<"Name">>, <<>>}

InitialFrames ==
    UNION {UNION {{[columns |-> cols,
                    index |-> n,
                    data |-> [c \in Range(cols) |->
                                 IF c = "Name" THEN names
                                 ELSE [i \in 1..n |-> EmailValue(i)]]] :
                   names \in IF "Name" \in Range(cols)
                             THEN [1..n -> NameValues] ELSE {<<>>}} :
                  cols \in InitialColumns} :
           n \in 0..MaxRows}

NoCall == [op |-> "none", column_name |-> "", arg |-> "", exc |-> "None",
           printed |-> "nothing"]

Init ==
    /\ data_frame \in InitialFrames
    /\ files = [f \in {"anonymized_data.csv"} |-> <<>>]
    /\ uncaught = FALSE
    /\ ncalls = 0
    /\ call = NoCall
    /\ prev_call = NoCall
    /\ pre = data_frame
    /\ constructed = data_frame
    /\ mirror = [data_frame |-> data_frame, exc1 |-> "None", exc2 |-> "None"]

Record(c, r) == [op |-> c.op, column_name |-> c.column_name, arg |-> c.arg,
                 exc |-> r.exc, printed |-> r.printed]

\* the caller may make another call: no exception has ended its sequence
CanCall == ~uncaught /\ ncalls < MaxCalls

\* the caller makes call c
Do(c) ==
    /\ LET r == Apply([data_frame |-> data_frame, files |-> files], c)
       IN /\ data_frame' = r.st.data_frame
          /\ files' = r.st.files
          /\ uncaught' = r.uncaught
          /\ call' = Record(c, r)
    /\ prev_call' = call
    /\ pre' = data_frame
    /\ ncalls' = ncalls + 1
    /\ UNCHANGED <<constructed, mirror>>

\* the random strings one pseudonymize_data call draws: one per distinct value
Draws(df, column_name) ==
    [1..Len(Unique(GetItem(df, column_name).values)) -> PseudonymPool]

\* the values one create_fake_data call generates: one per row
Generated(df, data_type) ==
    IF data_type \in DOMAIN data_generator
    THEN [1..LenDataFrame(df) -> data_generator[data_type]]
    ELSE {<<>>}

HashCalls == {[op |-> "hash_data", column_name |-> c, arg |-> "", rnd |-> <<>>] :
                 c \in ColumnNames}

PseudonymizeCalls(df) ==
    UNION {{[op |-> "pseudonymize_data", column_name |-> c, arg |-> "",
             rnd |-> d] : d \in Draws(df, c)} : c \in ColumnNames}

FakeCalls(df) ==
    UNION {{[op |-> "create_fake_data", column_name |-> c, arg |-> t,
             rnd |-> g] : g \in Generated(df, t)} :
           <<c, t>> \in ColumnNames \X DataTypes}

DropCalls == {[op |-> "drop_sensitive_data", column_name |-> c, arg |-> "",
               rnd |-> <<>>] : c \in ColumnNames}

SaveCalls == {[op |-> "save_anonymized_data", column_name |-> "", arg |-> f,
               rnd |-> <<>>] : f \in FileNames}

HashData ==
    /\ CanCall
    /\ \E c \in HashCalls : Do(c)

PseudonymizeData ==
    /\ CanCall
    /\ \E c \in PseudonymizeCalls(data_frame) : Do(c)

CreateFakeData ==
    /\ CanCall
    /\ \E c \in FakeCalls(data_frame) : Do(c)

DropSensitiveData ==
    /\ CanCall
    /\ \E c \in DropCalls : Do(c)

SaveAnonymizedData ==
    /\ CanCall
    /\ \E c \in SaveCalls : Do(c)

Next ==
    \/ HashData
    \/ PseudonymizeData
    \/ CreateFakeData
    \/ DropSensitiveData
    \/ SaveAnonymizedData

Spec == Init /\ [][Next]_vars

\* ------------------------------------------------------- two orders
\* the calls that name a column
ColumnCalls(df) ==
    HashCalls \cup PseudonymizeCalls(df) \cup FakeCalls(df) \cup DropCalls

\* On a freshly constructed toolkit, two calls on different columns are made
\* as c1, c2 (data_frame, prev_call, call) and, on a copy of the toolkit
\* with the same random results, as c2, c1 (mirror).
CommutePair ==
    /\ ncalls = 0
    /\ \E c1, c2 \in ColumnCalls(data_frame) :
          /\ c1.column_name # c2.column_name
          /\ LET st0 == [data_frame |-> data_frame, files |-> files]
                 a1 == Apply(st0, c1)
                 a2 == Apply(a1.st, c2)
                 b2 == Apply(st0, c2)
                 b1 == Apply(b2.st, c1)
             IN /\ data_frame' = a2.st.data_frame
                /\ pre' = a1.st.data_frame
                /\ prev_call' = Record(c1, a1)
                /\ call' = Record(c2, a2)
                /\ mirror' = [data_frame |-> b1.st.data_frame,
                              exc1 |-> b1.exc, exc2 |-> b2.exc]
                /\ uncaught' = (a1.uncaught \/ a2.uncaught \/
                                b1.uncaught \/ b2.uncaught)
    /\ ncalls' = 2
    /\ UNCHANGED <<files, constructed>>

NextCommute == CommutePair

SpecCommute == Init /\ [][NextCommute]_vars

\* ------------------------------------------------------------ claims
\* the error kinds of the specification, as the exceptions the code raises
ColumnNotFound == "KeyError"

UnsupportedDataType == "ValueError"

RegisteredTags == {"name", "address", "email", "credit_card", "phone"}

ColumnOps == {"hash_data", "pseudonymize_data", "create_fake_data",
              "drop_sensitive_data"}

Failed(c) == c.exc # "None"

\* the last two calls are the same method with the same argument
Twice ==
    /\ call.op # "none"
    /\ prev_call.op = call.op
    /\ prev_call.column_name = call.column_name
    /\ prev_call.arg = call.arg

\* every column of a other than c is in b, in the same order, with the
\* same values
OthersUnchanged(a, b, c) ==
    /\ SelectSeq(a.columns, LAMBDA n : n # c) =
       SelectSeq(b.columns, LAMBDA n : n # c)
    /\ \A n \in ColumnSet(a) \ {c} : a.data[n] = b.data[n]
    /\ a.index = b.index

\* C1: no call raises an error to the caller: a failing call is caught and
\* reported by the method itself, and the call after a failed call is still
\* made and reports its own outcome.
C1_NoErrorReachesCaller ==
    /\ ~uncaught
    /\ Failed(call) => call.printed \in {"error", "error: does not exist"}
    /\ (call.op # "none" /\ ~Failed(call)) => call.printed = "success"
    /\ (Failed(prev_call) /\ call.op # "none") => call.printed # "nothing"

\* a failed call followed by a hash_data call that hashed a column
C1_Witness ==
    /\ Failed(prev_call)
    /\ call.op = "hash_data"
    /\ ~Failed(call)
    /\ data_frame # pre

\* C2: create_fake_data with a tag outside {name, address, email,
\* credit_card, phone} fails with UnsupportedDataType and leaves the frame as
\* it was, whether or not the named column exists.
C2_UnsupportedTagRejected ==
    (call.op = "create_fake_data" /\ call.arg \notin RegisteredTags) =>
        /\ call.exc = UnsupportedDataType
        /\ data_frame = pre

\* the unregistered tag was passed for an absent column, then for a present one
C2_Witness ==
    /\ prev_call.op = "create_fake_data"
    /\ prev_call.arg = "ssn"
    /\ prev_call.column_name \notin ColumnSet(pre)
    /\ call.op = "create_fake_data"
    /\ call.arg = "ssn"
    /\ call.column_name \in ColumnSet(pre)
    /\ pre.index > 0
    /\ call.exc = UnsupportedDataType

\* C3: drop_sensitive_data on an existing column removes it and leaves every
\* other column (name, order, values) unchanged; dropping the same column
\* again fails with ColumnNotFound and leaves the frame as the first drop
\* left it.
C3_DropRemovesColumn ==
    /\ (call.op = "drop_sensitive_data" /\ call.column_name \in ColumnSet(pre)) =>
          /\ ~Failed(call)
          /\ call.column_name \notin ColumnSet(data_frame)
          /\ call.column_name \notin DOMAIN data_frame.data
          /\ ColumnSet(data_frame) = ColumnSet(pre) \ {call.column_name}
          /\ OthersUnchanged(pre, data_frame, call.column_name)
    /\ (Twice /\ call.op = "drop_sensitive_data" /\ ~Failed(prev_call)) =>
          /\ call.exc = ColumnNotFound
          /\ data_frame = pre

\* a column that had a neighbour was dropped, then dropped again
C3_Witness ==
    /\ Twice
    /\ call.op = "drop_sensitive_data"
    /\ ~Failed(prev_call)
    /\ call.exc = ColumnNotFound
    /\ Len(constructed.columns) = 2
    /\ Len(data_frame.columns) = 1

\* C4: once drop_sensitive_data has removed column c, a later hash_data,
\* pseudonymize_data, create_fake_data (registered tag) or
\* drop_sensitive_data call on c fails with ColumnNotFound and c stays absent.
C4_DroppedColumnStaysAbsent ==
    (/\ prev_call.op = "drop_sensitive_data"
     /\ ~Failed(prev_call)
     /\ call.op \in ColumnOps
     /\ call.column_name = prev_call.column_name
     /\ call.op = "create_fake_data" => call.arg \in RegisteredTags) =>
        /\ call.exc = ColumnNotFound
        /\ call.column_name \notin ColumnSet(data_frame)

\* C5: hash_data and pseudonymize_data on a column that is not in the frame
\* fail with ColumnNotFound and leave the frame unchanged.
C5_AbsentColumnRejected ==
    (/\ call.op \in {"hash_data", "pseudonymize_data"}
     /\ call.column_name \notin ColumnSet(pre)) =>
        /\ call.exc = ColumnNotFound
        /\ data_frame = pre

\* both methods were called on an absent column of a frame with rows
C5_Witness ==
    /\ prev_call.op = "hash_data"
    /\ prev_call.exc = ColumnNotFound
    /\ call.op = "pseudonymize_data"
    /\ call.column_name \notin ColumnSet(pre)
    /\ call.exc = ColumnNotFound
    /\ pre.index > 0

\* C6: one pseudonymize_data call on an existing column generates one
\* pseudonym per distinct value and replaces every row by the pseudonym of
\* its own value: equal original values get equal results, and the number of
\* distinct values does not grow.
C6_PseudonymConsistency ==
    (call.op = "pseudonymize_data" /\ call.column_name \in ColumnSet(pre)) =>
        LET old == pre.data[call.column_name]
            new == data_frame.data[call.column_name]
        IN /\ ~Failed(call)
           /\ Len(Unique(old)) = Cardinality(Range(old))
           /\ DOMAIN new = DOMAIN old
           /\ \A i \in DOMAIN old : new[i] \in PseudonymPool
           /\ \A i, j \in DOMAIN old : old[i] = old[j] => new[i] = new[j]
           /\ Cardinality(Range(new)) <= Cardinality(Range(old))

\* a column holding the same value in two rows was pseudonymized
C6_Witness ==
    /\ call.op = "pseudonymize_data"
    /\ call.column_name \in ColumnSet(pre)
    /\ ~Failed(call)
    /\ LET old == pre.data[call.column_name]
           new == data_frame.data[call.column_name]
       IN /\ Len(old) >= 2
          /\ old[1] = old[2]
          /\ new[1] = new[2]
          /\ new[1] \in PseudonymPool

\* C7: two calls among hash_data, pseudonymize_data, create_fake_data and
\* drop_sensitive_data on different columns give, in either order and with
\* the same random results, the same column set, the same values and the
\* same success or failure of each call.
C7_DifferentColumnsCommute ==
    ncalls = 2 =>
        /\ ColumnSet(data_frame) = ColumnSet(mirror.data_frame)
        /\ data_frame.data = mirror.data_frame.data
        /\ data_frame.index = mirror.data_frame.index
        /\ prev_call.exc = mirror.exc1
        /\ call.exc = mirror.exc2

\* a column was hashed and another one was pseudonymized, in both orders
C7_Witness ==
    /\ ncalls = 2
    /\ prev_call.op = "hash_data"
    /\ call.op = "pseudonymize_data"
    /\ ~Failed(prev_call)
    /\ ~Failed(call)
    /\ constructed.index > 0
    /\ data_frame = mirror.data_frame

\* C8 as stated: hash_data, drop_sensitive_data or save_anonymized_data
\* applied twice with the same argument leaves the frame as one application
\* left it.
C8_Idempotent ==
    (Twice /\ call.op \in {"hash_data", "drop_sensitive_data",
                           "save_anonymized_data"}) =>
        data_frame = pre

\* C8 amended: drop_sensitive_data and save_anonymized_data applied twice
\* leave the frame as one application left it; hash_data does so only on an
\* absent column or a frame without rows, and otherwise replaces every digest
\* by the digest of that digest, which is a different frame.
C8_IdempotentExceptHash ==
    /\ (Twice /\ call.op \in {"drop_sensitive_data", "save_anonymized_data"}) =>
          data_frame = pre
    /\ (Twice /\ call.op = "hash_data") =>
          IF call.column_name \in ColumnSet(pre) /\ pre.index > 0
          THEN /\ data_frame # pre
               /\ \A i \in 1..pre.index :
                     data_frame.data[call.column_name][i].text =
                        Sha256HexDigest(pre.data[call.column_name][i].text)
          ELSE data_frame = pre

\* an existing column with rows was hashed twice
C8_Witness ==
    /\ Twice
    /\ call.op = "hash_data"
    /\ ~Failed(prev_call)
    /\ ~Failed(call)
    /\ pre.index > 0

\* C9: after any sequence of calls the frame has the row count it was
\* constructed with and every column present has that many values, also when
\* create_fake_data runs after every column has been dropped.
C9_RowCountInvariant ==
    /\ data_frame.index = constructed.index
    /\ DOMAIN data_frame.data = ColumnSet(data_frame)
    /\ \A c \in ColumnSet(data_frame) :
          Len(data_frame.data[c]) = constructed.index

\* the only column was dropped and create_fake_data then filled a column
C9_Witness ==
    /\ constructed.columns # <<>>
    /\ constructed.index > 0
    /\ pre.columns = <<>>
    /\ call.op = "create_fake_data"
    /\ ~Failed(call)
    /\ Len(data_frame.data[call.column_name]) = constructed.index

\* C10: hash_data, pseudonymize_data or create_fake_data on column c leaves
\* the set and order of the column names and every value of every other
\* column unchanged, and save_anonymized_data leaves the frame unchanged.
C10_TransformFrame ==
    /\ call.op \in {"hash_data", "pseudonymize_data", "create_fake_data"} =>
          /\ data_frame.columns = pre.columns
          /\ OthersUnchanged(pre, data_frame, call.column_name)
    /\ call.op = "save_anonymized_data" => data_frame = pre

====
